---- MODULE Spec2Model ----
(***************************************************************************)
(* koomen/llm-proxy, src/index.js: a Worker that validates an inbound      *)
(* request (origin, method, JSON body, prompt), forwards the prompt to the *)
(* upstream API and relays the streamed answer through a ReadableStream    *)
(* whose start() callback runs the push() loop with a character cap.       *)
(*                                                                         *)
(* One inbound request is modelled from arrival to the end of its relay.   *)
(* Bytes are integers 0..255, JavaScript strings are sequences of UTF-16   *)
(* code units, TextDecoder / TextEncoder are the WHATWG UTF-8 algorithms.  *)
(* The two length limits keep their role but are scaled down so that the   *)
(* boundary cases fit in the explored state space.                         *)
(***************************************************************************)
EXTENDS Integers, Sequences, FiniteSets, TLC

\* ---------------------------------------------------------------- limits
ALLOWED_ORIGIN == "https://koomen.dev"
MAX_PROMPT_LENGTH == 10
MAX_RESPONSE_LENGTH == 2

\* Bounds of the exploration.
MaxPromptInput == 12
MaxBytes == 5

\* ------------------------------------------------------ JavaScript values
Undefined == [t |-> "undefined", n |-> 0]
Null == [t |-> "null", n |-> 0]
Str(n) == [t |-> "string", n |-> n]
Num(n) == [t |-> "number", n |-> n]
Arr(n) == [t |-> "array", n |-> n]
Obj == [t |-> "object", n |-> 0]

\* !v
Truthy(v) ==
  CASE v.t = "undefined" -> FALSE
    [] v.t = "null" -> FALSE
    [] v.t = "string" -> v.n > 0
    [] v.t = "number" -> v.n # 0
    [] OTHER -> TRUE

\* v.length: a number for strings and arrays, undefined (-1 here) otherwise
NoLength == -1
LengthOf(v) == IF v.t \in {"string", "array"} THEN v.n ELSE NoLength

\* a > b with a = undefined: ToNumber(undefined) is NaN, the comparison is false
GreaterThan(a, b) == a # NoLength /\ a > b

\* `${n}` for a non-negative integer: its decimal digits
DigitChar(d) == <<"0", "1", "2", "3", "4", "5", "6", "7", "8", "9">>[d + 1]

RECURSIVE NumberToString(_)
NumberToString(n) ==
  IF n < 10 THEN <<DigitChar(n)>>
  ELSE NumberToString(n \div 10) \o <<DigitChar(n % 10)>>

\* `${v}` for the value of prompt.length
LengthToString(l) == IF l = NoLength THEN <<"undefined">> ELSE NumberToString(l)

\* ------------------------------------------------------------------ UTF-8
RECURSIVE Flatten(_)
Flatten(chunks) ==
  IF chunks = <<>> THEN <<>> ELSE Head(chunks) \o Flatten(Tail(chunks))

\* new TextDecoder(): the WHATWG UTF-8 decoder's state, and the BOM flag
NewDecoder ==
  [cp |-> 0, seen |-> 0, needed |-> 0, lower |-> 128, upper |-> 191, bomSeen |-> FALSE]

ResetDecoder(d) ==
  [d EXCEPT !.cp = 0, !.seen = 0, !.needed = 0, !.lower = 128, !.upper = 191]

\* a code point as UTF-16 code units
CodeUnits(cp) ==
  IF cp < 65536 THEN <<cp>>
  ELSE <<55296 + ((cp - 65536) \div 1024), 56320 + ((cp - 65536) % 1024)>>

\* output of one code point: the first one is dropped when it is U+FEFF
EmitCodePoint(d, cp) ==
  [dec |-> [d EXCEPT !.bomSeen = TRUE],
   out |-> IF ~d.bomSeen /\ cp = 65279 THEN <<>> ELSE CodeUnits(cp)]

\* the UTF-8 decoder's handler for one byte; redo = the byte is put back
DecodeByte(d, b) ==
  IF d.needed = 0 THEN
    IF b <= 127 THEN EmitCodePoint(d, b) @@ [redo |-> FALSE]
    ELSE IF b >= 194 /\ b <= 223 THEN
      [dec |-> [d EXCEPT !.needed = 1, !.cp = b % 32], out |-> <<>>, redo |-> FALSE]
    ELSE IF b >= 224 /\ b <= 239 THEN
      [dec |-> [d EXCEPT !.needed = 2, !.cp = b % 16,
                         !.lower = IF b = 224 THEN 160 ELSE 128,
                         !.upper = IF b = 237 THEN 159 ELSE 191],
       out |-> <<>>, redo |-> FALSE]
    ELSE IF b >= 240 /\ b <= 244 THEN
      [dec |-> [d EXCEPT !.needed = 3, !.cp = b % 8,
                         !.lower = IF b = 240 THEN 144 ELSE 128,
                         !.upper = IF b = 244 THEN 143 ELSE 191],
       out |-> <<>>, redo |-> FALSE]
    ELSE EmitCodePoint(d, 65533) @@ [redo |-> FALSE]
  ELSE IF b < d.lower \/ b > d.upper THEN
    EmitCodePoint(ResetDecoder(d), 65533) @@ [redo |-> TRUE]
  ELSE
    LET cp == d.cp * 64 + (b % 64) IN
    IF d.seen + 1 # d.needed THEN
      [dec |-> [d EXCEPT !.cp = cp, !.seen = d.seen + 1, !.lower = 128, !.upper = 191],
       out |-> <<>>, redo |-> FALSE]
    ELSE EmitCodePoint(ResetDecoder(d), cp) @@ [redo |-> FALSE]

\* textDecoder.decode(value, { stream: true }): the text and the decoder after
RECURSIVE Decode(_, _)
Decode(d, bytes) ==
  IF bytes = <<>> THEN [dec |-> d, text |-> <<>>]
  ELSE LET r == DecodeByte(d, Head(bytes))
           rest == Decode(r.dec, IF r.redo THEN bytes ELSE Tail(bytes))
       IN [dec |-> rest.dec, text |-> r.out \o rest.text]

IsHigh(u) == u >= 55296 /\ u <= 56319
IsLow(u) == u >= 56320 /\ u <= 57343

\* UTF-8 bytes of one code point
EncodeCodePoint(cp) ==
  IF cp < 128 THEN <<cp>>
  ELSE IF cp < 2048 THEN <<192 + (cp \div 64), 128 + (cp % 64)>>
  ELSE IF cp < 65536 THEN
    <<224 + (cp \div 4096), 128 + ((cp \div 64) % 64), 128 + (cp % 64)>>
  ELSE <<240 + (cp \div 262144), 128 + ((cp \div 4096) % 64),
         128 + ((cp \div 64) % 64), 128 + (cp % 64)>>

\* textEncoder.encode(text): a surrogate pair is one code point, a lone
\* surrogate becomes U+FFFD
RECURSIVE Encode(_)
Encode(text) ==
  IF text = <<>> THEN <<>>
  ELSE LET u == Head(text) IN
    IF IsHigh(u) /\ Len(text) >= 2 /\ IsLow(text[2]) THEN
      EncodeCodePoint(65536 + (u - 55296) * 1024 + (text[2] - 56320))
        \o Encode(Tail(Tail(text)))
    ELSE IF IsHigh(u) \/ IsLow(u) THEN EncodeCodePoint(65533) \o Encode(Tail(text))
    ELSE EncodeCodePoint(u) \o Encode(Tail(text))

\* chunkText.substring(0, allowed) with 0 <= allowed
Substring(text, allowed) ==
  SubSeq(text, 1, IF allowed < Len(text) THEN allowed ELSE Len(text))

\* ------------------------------------------------------- inbound requests
Origins == {"absent", ALLOWED_ORIGIN, "https://evil.example", "https://koomen.dev/"}
Methods == {"GET", "POST", "OPTIONS", "DELETE"}

Prompts ==
  {Undefined, Null, Num(0), Num(7), Arr(0), Arr(MaxPromptInput), Obj}
    \cup {Str(n) : n \in 0..MaxPromptInput}

\* what request.json() yields: a rejection, or a JSON value; an object is
\* given by the value of its prompt property (Undefined when it has none)
Bodies ==
  {[kind |-> k, prompt |-> Undefined] : k \in {"invalid", "null", "number", "string", "array"}}
    \cup {[kind |-> "object", prompt |-> p] : p \in Prompts}

Requests == [origin : Origins, method : Methods, body : Bodies]

\* request.headers.get("Origin"): null when the header is absent
GetOrigin(req) == IF req.origin = "absent" THEN "null" ELSE req.origin

\* let { prompt } = body, for body not null
Destructure(body) == IF body.kind = "object" THEN body.prompt ELSE Undefined

\* ------------------------------------------------------------- responses
NoResponse == [status |-> 0, body |-> "none", text |-> <<>>, headers |-> {}]

\* new Response(text, { status })
TextResponse(text, status) ==
  [status |-> status, body |-> "text", text |-> text, headers |-> {}]

Forbidden == TextResponse(<<"Forbidden">>, 403)

Preflight ==
  [status |-> 200, body |-> "null", text |-> <<>>,
   headers |-> {<<"Access-Control-Allow-Origin", ALLOWED_ORIGIN>>,
                <<"Access-Control-Allow-Methods", "POST, OPTIONS">>,
                <<"Access-Control-Allow-Headers", "Content-Type, Authorization">>}]

MethodNotAllowed == TextResponse(<<"Method Not Allowed">>, 405)

InvalidJson == TextResponse(<<"Bad Request: Invalid JSON">>, 400)

MissingPrompt == TextResponse(<<"Bad Request: Missing prompt">>, 400)

PromptTooLong(prompt) ==
  TextResponse(<<"Bad Request: Max prompt length exceeded (">>
                 \o LengthToString(LengthOf(prompt)) \o <<">">>
                 \o NumberToString(MAX_PROMPT_LENGTH), 400)

UpstreamError == TextResponse(<<"Error from OpenAI API">>, 500)

\* the members of a ReadableStream object
ReadableStreamMembers ==
  {"locked", "cancel", "getReader", "pipeThrough", "pipeTo", "tee", "values"}

\* const { readable } = new ReadableStream({...}): the stream's property
\* of that name, undefined when it has none
readable == IF "readable" \in ReadableStreamMembers THEN "stream" ELSE "undefined"

\* new Response(readable, { headers }): an undefined body is no body
StreamResponse ==
  [status |-> 200, body |-> IF readable = "undefined" THEN "null" ELSE readable,
   text |-> <<>>,
   headers |-> {<<"Content-Type", "application/json">>,
                <<"Access-Control-Allow-Origin", ALLOWED_ORIGIN>>}]

\* ------------------------------------- ReadableStreamDefaultController
NewController == [queue |-> <<>>, closeRequested |-> FALSE, state |-> "readable"]

CanCloseOrEnqueue(c) == ~c.closeRequested /\ c.state = "readable"

\* controller.enqueue(chunk): no reader holds the stream, the chunk is queued
ControllerEnqueue(c, chunk) ==
  IF CanCloseOrEnqueue(c)
  THEN [ctl |-> [c EXCEPT !.queue = Append(@, chunk)], threw |-> FALSE]
  ELSE [ctl |-> c, threw |-> TRUE]

\* controller.close(): the stream closes once its queue is empty
ControllerClose(c) ==
  IF CanCloseOrEnqueue(c)
  THEN [ctl |-> [c EXCEPT !.closeRequested = TRUE,
                          !.state = IF c.queue = <<>> THEN "closed" ELSE "readable"],
        threw |-> FALSE]
  ELSE [ctl |-> c, threw |-> TRUE]

\* variant: the error is swallowed
ControllerErrorIgnored(c) == c

\* controller.error(e)
ControllerError(c) ==
  IF c.state # "readable" THEN c ELSE [c EXCEPT !.queue = <<>>, !.state = "errored"]

\* ------------------------------------------------------------ upstream
\* bytes the upstream body is made of: "a", the lead byte of a 2-byte
\* character, the lead byte of a 4-byte character, a continuation byte
Bytes == {97, 195, 240, 144}

\* the chunks a read may deliver when `used` bytes were delivered before
ChunksWithin(used) ==
  UNION {[1..n -> Bytes] : n \in 1..(MaxBytes - used)}

\* ------------------------------------------------------------------ state
VARIABLES
  request,      \* the inbound request
  pc,           \* handleRequest: "start", "json", "fetch", "resolved", "rejected"
  response,     \* the Response handleRequest resolved with
  bodyRead,     \* request.json() was called
  passed,       \* the gate checks passed so far, in order
  fetchCalls,   \* calls of fetch(OPENAI_API_URL, ...)
  payload,      \* the prompt and stream flag of the last fetch
  upstreamOk,   \* openaiResponse.ok
  controller,   \* the relay stream's controller
  emitted,      \* every chunk enqueued on the controller, in order
  decoder,      \* textDecoder
  totalLength,  \* totalLength
  reads,        \* calls of reader.read()
  readPending,  \* a reader.read() is awaited
  upstream,     \* the chunks the reads delivered, in order
  upstreamEnd,  \* "open", "done" (a read gave done), "error" (a read rejected)
  loop,         \* push: "idle", "running", "done", "cap", "error"
  reader,       \* the upstream body's reader: "none", "locked", "cancelled"
  terminal,     \* the calls of controller.close() and controller.error()
  client        \* the downstream client: "connected", "gone"

vars ==
  <<request, pc, response, bodyRead, passed, fetchCalls, payload, upstreamOk,
    controller, emitted, decoder, totalLength, reads, readPending, upstream,
    upstreamEnd, loop, reader, terminal, client>>

gateVars == <<request, pc, response, bodyRead, passed, fetchCalls, payload, upstreamOk>>

relayVars ==
  <<controller, emitted, decoder, totalLength, reads, readPending, upstream,
    upstreamEnd, loop, reader, terminal, client>>

Init ==
  /\ request \in Requests
  /\ pc = "start"
  /\ response = NoResponse
  /\ bodyRead = FALSE
  /\ passed = <<>>
  /\ fetchCalls = 0
  /\ payload = [prompt |-> Undefined, stream |-> FALSE]
  /\ upstreamOk = FALSE
  /\ controller = NewController
  /\ emitted = <<>>
  /\ decoder = NewDecoder
  /\ totalLength = 0
  /\ reads = 0
  /\ readPending = FALSE
  /\ upstream = <<>>
  /\ upstreamEnd = "open"
  /\ loop = "idle"
  /\ reader = "none"
  /\ terminal = <<>>
  /\ client = "connected"

\* ------------------------------------------------------------ the gate
\* variant: the origin is matched by prefix instead of by equality
OriginAllowedByPrefix(origin) == origin \in {ALLOWED_ORIGIN, "https://koomen.dev/"}

OriginAllowed(origin) == origin = ALLOWED_ORIGIN

\* variant: GET is let through with POST
IsPostOrGet(method) == method \in {"POST", "GET"}

\* request.method === "POST"
IsPost(method) == method = "POST"

\* handleRequest from its entry to `await request.json()`
Receive ==
  /\ pc = "start"
  /\ IF ~OriginAllowed(GetOrigin(request)) THEN
       /\ response' = Forbidden
       /\ pc' = "resolved"
       /\ UNCHANGED <<bodyRead, passed>>
     ELSE IF request.method = "OPTIONS" THEN
       /\ response' = Preflight
       /\ pc' = "resolved"
       /\ passed' = <<"origin">>
       /\ UNCHANGED bodyRead
     ELSE IF ~IsPost(request.method) THEN
       /\ response' = MethodNotAllowed
       /\ pc' = "resolved"
       /\ passed' = <<"origin", "preflight">>
       /\ UNCHANGED bodyRead
     ELSE
       /\ bodyRead' = TRUE
       /\ pc' = "json"
       /\ passed' = <<"origin", "preflight", "method">>
       /\ UNCHANGED response
  /\ UNCHANGED <<request, fetchCalls, payload, upstreamOk>>
  /\ UNCHANGED relayVars

\* variant: the length check is skipped
PromptNeverExceeds(prompt) == FALSE

\* variant: the length check uses >= instead of >
PromptExceedsOrEqual(prompt) ==
  LengthOf(prompt) # NoLength /\ LengthOf(prompt) >= MAX_PROMPT_LENGTH

\* prompt.length > MAX_PROMPT_LENGTH
PromptExceeds(prompt) == GreaterThan(LengthOf(prompt), MAX_PROMPT_LENGTH)

\* handleRequest from the settling of request.json() to `await fetch(...)`
Validate ==
  /\ pc = "json"
  /\ IF request.body.kind = "invalid" THEN
       /\ response' = InvalidJson
       /\ pc' = "resolved"
       /\ UNCHANGED <<passed, fetchCalls, payload>>
     ELSE IF request.body.kind = "null" THEN
       \* destructuring null throws a TypeError, which nothing catches
       /\ pc' = "rejected"
       /\ passed' = Append(passed, "json")
       /\ UNCHANGED <<response, fetchCalls, payload>>
     ELSE LET prompt == Destructure(request.body) IN
       IF ~Truthy(prompt) THEN
         /\ response' = MissingPrompt
         /\ pc' = "resolved"
         /\ passed' = Append(passed, "json")
         /\ UNCHANGED <<fetchCalls, payload>>
       ELSE IF PromptExceeds(prompt) THEN
         /\ response' = PromptTooLong(prompt)
         /\ pc' = "resolved"
         /\ passed' = passed \o <<"json", "presence">>
         /\ UNCHANGED <<fetchCalls, payload>>
       ELSE
         /\ fetchCalls' = fetchCalls + 1
         /\ payload' = [prompt |-> prompt, stream |-> TRUE]
         /\ pc' = "fetch"
         /\ passed' = passed \o <<"json", "presence", "length">>
         /\ UNCHANGED response
  /\ UNCHANGED <<request, bodyRead, upstreamOk>>
  /\ UNCHANGED relayVars

\* the fetch rejects: handleRequest has no handler for it
FetchRejects ==
  /\ pc = "fetch"
  /\ pc' = "rejected"
  /\ UNCHANGED <<request, response, bodyRead, passed, fetchCalls, payload, upstreamOk>>
  /\ UNCHANGED relayVars

\* variant: push() is started twice for one chunk
PushCallsReadTwice == reads + 2

\* push() from its entry to `await reader.read()`
PushCallsRead == reads + 1

\* variant: the upstream status is not looked at
NotOkIgnored(ok) == FALSE

\* !openaiResponse.ok
NotOk(ok) == ~ok

\* the fetch resolves; with ok, the stream is constructed, start() runs
\* push() up to its first read, and the Response is returned
FetchResolves(ok) ==
  /\ pc = "fetch"
  /\ upstreamOk' = ok
  /\ pc' = "resolved"
  /\ IF NotOk(ok) THEN
       /\ response' = UpstreamError
       /\ UNCHANGED relayVars
     ELSE
       /\ response' = StreamResponse
       /\ controller' = NewController
       /\ decoder' = NewDecoder
       /\ totalLength' = 0
       /\ reads' = PushCallsRead
       /\ readPending' = TRUE
       /\ loop' = "running"
       /\ reader' = "locked"
       /\ UNCHANGED <<emitted, upstream, upstreamEnd, terminal, client>>
  /\ UNCHANGED <<request, bodyRead, passed, fetchCalls, payload>>

\* ------------------------------------------------------------ the relay
\* variant: the cap is never tested
ExceedsCapNever(total, length) == FALSE

\* totalLength + chunkText.length > MAX_RESPONSE_LENGTH
ExceedsCap(total, length) == total + length > MAX_RESPONSE_LENGTH

\* variant: the budget ignores what was already emitted
AllowedIgnoringTotal(total) == MAX_RESPONSE_LENGTH

\* const allowed = MAX_RESPONSE_LENGTH - totalLength
Allowed(total) == MAX_RESPONSE_LENGTH - total

\* textEncoder.encode(chunkText.substring(0, allowed))
Trimmed(chunkText, total) == Encode(Substring(chunkText, Allowed(total)))

\* variant: a chunk that fits is re-encoded from its text
ForwardedReencoded(value, chunkText) == Encode(chunkText)

\* what is enqueued for a chunk that fits
Forwarded(value, chunkText) == value

\* totalLength += chunkText.length
Accounted(total, chunkText) == total + Len(chunkText)

\* variant: a new decoder for every chunk
FreshDecoder(d) == NewDecoder

\* the textDecoder of the session, the same for every chunk
SessionDecoder(d) == d

\* a call of controller.close() or controller.error(): whether it took
\* effect, how many chunks had been enqueued when it was made, and whether
\* the client had gone by then
Call(name, effect, at, gone) ==
  [call |-> name, effect |-> effect, at |-> at, gone |-> gone]

\* a read resolves with a chunk: push() from the read to its return or to
\* the next read
ReadChunk(value) ==
  /\ pc = "resolved"
  /\ readPending
  /\ upstreamEnd = "open"
  /\ upstream' = Append(upstream, value)
  /\ LET d == Decode(SessionDecoder(decoder), value)
         chunkText == d.text
     IN
     /\ decoder' = d.dec
     /\ IF ExceedsCap(totalLength, Len(chunkText)) THEN
          LET trimmed == Trimmed(chunkText, totalLength)
              e == ControllerEnqueue(controller, trimmed)
              c == ControllerClose(e.ctl)
          IN
          /\ readPending' = FALSE
          /\ UNCHANGED <<totalLength, reads>>
          /\ IF e.threw THEN
               /\ controller' = ControllerError(controller)
               /\ loop' = "error"
               /\ terminal' = Append(terminal,
                    Call("error", controller.state = "readable", Len(emitted), client = "gone"))
               /\ UNCHANGED emitted
             ELSE
               /\ emitted' = Append(emitted, trimmed)
               /\ controller' = IF c.threw THEN ControllerError(e.ctl) ELSE c.ctl
               /\ loop' = IF c.threw THEN "error" ELSE "cap"
               /\ terminal' =
                    IF c.threw
                    THEN terminal \o <<Call("close", FALSE, Len(emitted) + 1, client = "gone"),
                                       Call("error", TRUE, Len(emitted) + 1, client = "gone")>>
                    ELSE Append(terminal, Call("close", TRUE, Len(emitted) + 1, client = "gone"))
        ELSE
          LET out == Forwarded(value, chunkText)
              e == ControllerEnqueue(controller, out)
          IN
          /\ totalLength' = Accounted(totalLength, chunkText)
          /\ IF e.threw THEN
               /\ controller' = ControllerError(controller)
               /\ loop' = "error"
               /\ readPending' = FALSE
               /\ terminal' = Append(terminal,
                    Call("error", controller.state = "readable", Len(emitted), client = "gone"))
               /\ UNCHANGED <<emitted, reads>>
             ELSE
               /\ controller' = e.ctl
               /\ emitted' = Append(emitted, out)
               /\ reads' = PushCallsRead
               /\ readPending' = TRUE
               /\ UNCHANGED <<loop, terminal>>
  /\ UNCHANGED <<upstreamEnd, reader, client>>
  /\ UNCHANGED gateVars

\* a read resolves with done: controller.close()
ReadDone ==
  /\ pc = "resolved"
  /\ readPending
  /\ upstreamEnd = "open"
  /\ upstreamEnd' = "done"
  /\ readPending' = FALSE
  /\ LET c == ControllerClose(controller) IN
     /\ controller' = IF c.threw THEN ControllerError(controller) ELSE c.ctl
     /\ loop' = IF c.threw THEN "error" ELSE "done"
     /\ terminal' =
          IF c.threw
          THEN terminal \o <<Call("close", FALSE, Len(emitted), client = "gone"),
                             Call("error", controller.state = "readable", Len(emitted), client = "gone")>>
          ELSE Append(terminal, Call("close", TRUE, Len(emitted), client = "gone"))
  /\ UNCHANGED <<emitted, decoder, totalLength, reads, upstream, reader, client>>
  /\ UNCHANGED gateVars

\* a read rejects: controller.error(error)
ReadFails ==
  /\ pc = "resolved"
  /\ readPending
  /\ upstreamEnd = "open"
  /\ upstreamEnd' = "error"
  /\ readPending' = FALSE
  /\ controller' = ControllerError(controller)
  /\ loop' = "error"
  /\ terminal' = Append(terminal,
       Call("error", controller.state = "readable", Len(emitted), client = "gone"))
  /\ UNCHANGED <<emitted, decoder, totalLength, reads, upstream, reader, client>>
  /\ UNCHANGED gateVars

\* the stream is cancelled by its consumer: it closes and drops its queue;
\* the underlying source has no cancel() to call
ControllerCancel(c) ==
  IF c.state # "readable" THEN c ELSE [c EXCEPT !.queue = <<>>, !.state = "closed"]

\* the client goes away while the response is streamed: the body of the
\* Response is cancelled, which is the relay stream only if it is that body
ClientDisconnects ==
  /\ pc = "resolved"
  /\ upstreamOk
  /\ client = "connected"
  /\ client' = "gone"
  /\ controller' =
       IF response.body = "stream" THEN ControllerCancel(controller) ELSE controller
  /\ UNCHANGED <<emitted, decoder, totalLength, reads, readPending, upstream,
                 upstreamEnd, loop, reader, terminal>>
  /\ UNCHANGED gateVars

UsedBytes == Len(Flatten(upstream))

Next ==
  \/ Receive
  \/ Validate
  \/ FetchRejects
  \/ \E ok \in BOOLEAN : FetchResolves(ok)
  \/ \E value \in ChunksWithin(UsedBytes) : ReadChunk(value)
  \/ ReadDone
  \/ ReadFails
  \/ ClientDisconnects

Spec == Init /\ [][Next]_vars

\* The relay does not read the request: its claims are checked for one
\* request that passes the gate, here {"prompt": "hello"}.
Hello ==
  [origin |-> ALLOWED_ORIGIN, method |-> "POST",
   body |-> [kind |-> "object", prompt |-> Str(5)]]

RelayInit == Init /\ request = Hello

RelaySpec == RelayInit /\ [][Next]_vars

\* ------------------------------------------------ notions of the claims
\* the text each chunk decodes to, one decoder carried through the chunks
RECURSIVE ChunkTexts(_, _)
ChunkTexts(d, chunks) ==
  IF chunks = <<>> THEN <<>>
  ELSE LET r == Decode(d, Head(chunks))
       IN <<r.text>> \o ChunkTexts(r.dec, Tail(chunks))

RECURSIVE SumLen(_)
SumLen(texts) == IF texts = <<>> THEN 0 ELSE Len(Head(texts)) + SumLen(Tail(texts))

UpstreamTexts == ChunkTexts(NewDecoder, upstream)

\* cumulative decoded length of the first i upstream chunks
Cumulative(i) == SumLen(SubSeq(UpstreamTexts, 1, i))

\* the chunks in which the cumulative decoded length is above the cap
Exceeding == {i \in 1..Len(upstream) : Cumulative(i) > MAX_RESPONSE_LENGTH}

FirstExceeding == CHOOSE i \in Exceeding : \A j \in Exceeding : i <= j

\* the characters a client decodes from the bytes enqueued so far
EmittedChars == Len(Decode(NewDecoder, Flatten(emitted)).text)

\* the decoded length of the whole upstream body received so far
UpstreamChars == Len(Decode(NewDecoder, Flatten(upstream)).text)

Contains(text, part) ==
  \E i \in 0..(Len(text) - Len(part)) : SubSeq(text, i + 1, i + Len(part)) = part

\* ----------------------------------------------------------------- C1
\* C1: when the cumulative decoded length first exceeds the cap inside
\* chunk C, the chunks enqueued are the chunks before C followed by the
\* encoding of the first (cap - decoded length of the chunks before C)
\* characters of C's text; the controller is then closed and no read
\* follows the one that delivered C.
C1_CapBoundary ==
  Exceeding # {} =>
    LET k == FirstExceeding
        budget == MAX_RESPONSE_LENGTH - Cumulative(k - 1)
    IN /\ emitted = SubSeq(upstream, 1, k - 1)
                      \o <<Encode(SubSeq(UpstreamTexts[k], 1, budget))>>
       /\ controller.closeRequested
       /\ controller.state # "errored"
       /\ Len(upstream) = k
       /\ reads = k
       /\ ~readPending

C1_Witness ==
  /\ loop = "cap"
  /\ Len(upstream) = 3
  /\ Len(emitted[3]) > 0
  /\ Len(emitted[3]) < Len(upstream[3])

\* ----------------------------------------------------------------- C2
\* C2: the characters emitted downstream never exceed the cap, and
\* totalLength never exceeds it, whatever the chunking.
C2_EmittedWithinCap ==
  /\ EmittedChars <= MAX_RESPONSE_LENGTH
  /\ totalLength <= MAX_RESPONSE_LENGTH

\* ----------------------------------------------------------------- C3
\* C3: once the emitted total equals the cap at the end of a chunk, the
\* controller is closed and no further upstream read is issued.
C3_NoReadAtCap ==
  (loop # "idle" /\ totalLength = MAX_RESPONSE_LENGTH) =>
    /\ ~readPending
    /\ reads = Len(upstream)
    /\ controller.closeRequested

\* ----------------------------------------------------------------- C4
\* C4: while the decoded length of the upstream body is at most the cap,
\* the chunks enqueued are exactly the chunks received, and the controller
\* is closed exactly when upstream has signalled its end.
C4_PassThrough ==
  (loop # "idle" /\ UpstreamChars <= MAX_RESPONSE_LENGTH) =>
    /\ emitted = upstream
    /\ controller.closeRequested <=> upstreamEnd = "done"

C4_Witness ==
  /\ loop = "done"
  /\ Len(upstream) = 2
  /\ UpstreamChars = MAX_RESPONSE_LENGTH
  /\ \E i \in 1..2 : UpstreamTexts[i] # <<>> /\ Encode(UpstreamTexts[i]) # upstream[i]

\* ----------------------------------------------------------------- C5
\* C5: after a successful upstream response, the Response handed to the
\* client has the relay stream as its body, with the headers Content-Type:
\* application/json and Access-Control-Allow-Origin: the allowed origin.
C5_BodyIsRelayStream ==
  (pc = "resolved" /\ upstreamOk) =>
    /\ response.status = 200
    /\ response.body = "stream"
    /\ response.headers = {<<"Content-Type", "application/json">>,
                           <<"Access-Control-Allow-Origin", ALLOWED_ORIGIN>>}

\* ----------------------------------------------------------------- C6
AllChecks == <<"origin", "preflight", "method", "json", "presence", "length">>

GateFailures == {400, 403, 405}

\* C6: fetch is called at most once, only after the six gate checks have
\* passed in order on this request, and never when a check has failed.
C6_UpstreamOnlyAfterGate ==
  /\ fetchCalls <= 1
  /\ fetchCalls = 1 =>
       /\ passed = AllChecks
       /\ request.origin = ALLOWED_ORIGIN
       /\ request.method = "POST"
       /\ bodyRead
       /\ request.body.kind = "object"
       /\ request.body.prompt \notin {Undefined, Null, Num(0), Str(0)}
       /\ request.body.prompt.t \in {"string", "array"} =>
            request.body.prompt.n <= MAX_PROMPT_LENGTH
       /\ payload = [prompt |-> request.body.prompt, stream |-> TRUE]
  /\ (response.status \in GateFailures \/ response = Preflight) => fetchCalls = 0
  /\ passed # AllChecks => fetchCalls = 0

C6_Witness ==
  /\ pc = "fetch"
  /\ fetchCalls = 1
  /\ request.body.prompt = Str(MAX_PROMPT_LENGTH)

\* ----------------------------------------------------------------- C7
CorsHeaders ==
  {"Access-Control-Allow-Origin", "Access-Control-Allow-Methods",
   "Access-Control-Allow-Headers"}

\* C7: a request whose Origin is absent or differs from the allowed origin
\* is answered 403 whatever its method and body: the body is not read, no
\* CORS header is set and fetch is not called.
C7_ForbiddenOrigin ==
  (request.origin # ALLOWED_ORIGIN /\ pc # "start") =>
    /\ pc = "resolved"
    /\ response.status = 403
    /\ ~bodyRead
    /\ \A h \in response.headers : h[1] \notin CorsHeaders
    /\ fetchCalls = 0
    /\ loop = "idle"

C7_Witness ==
  /\ request.origin = "https://koomen.dev/"
  /\ request.method = "OPTIONS"
  /\ response.status = 403

\* ----------------------------------------------------------------- C8
NonEmptyString(v) == v.t = "string" /\ v.n > 0

\* C8: a POST from the allowed origin whose body parses as JSON and has no
\* non-empty string prompt is answered 400 "Bad Request: Missing prompt",
\* and fetch is not called.
C8_MissingPrompt ==
  ( /\ request.origin = ALLOWED_ORIGIN
    /\ request.method = "POST"
    /\ request.body.kind # "invalid"
    /\ ~(request.body.kind = "object" /\ NonEmptyString(request.body.prompt))
    /\ pc \notin {"start", "json"} ) =>
    /\ pc = "resolved"
    /\ response.status = 400
    /\ response.text = <<"Bad Request: Missing prompt">>
    /\ fetchCalls = 0

\* ----------------------------------------------------------------- C9
StringPrompt ==
  /\ request.origin = ALLOWED_ORIGIN
  /\ request.method = "POST"
  /\ request.body.kind = "object"
  /\ request.body.prompt.t = "string"

\* the decimal digits of a number below 100, by table
Digits == <<"0", "1", "2", "3", "4", "5", "6", "7", "8", "9">>
Decimal(n) ==
  IF n < 10 THEN <<Digits[n + 1]>> ELSE <<Digits[(n \div 10) + 1], Digits[(n % 10) + 1]>>

\* C9: a string prompt of length L above the maximum M is answered 400 with
\* a body that contains L and M ("...exceeded (12>10" for L = 12, M = 10)
\* and fetch is not called; a prompt with 0 < L <= M reaches the fetch.
C9_PromptLength ==
  (StringPrompt /\ pc \notin {"start", "json"}) =>
    LET L == request.body.prompt.n IN
    /\ L > MAX_PROMPT_LENGTH =>
         /\ pc = "resolved"
         /\ response.status = 400
         /\ Contains(response.text, Decimal(L))
         /\ Contains(response.text, Decimal(MAX_PROMPT_LENGTH))
         /\ response.text =
              <<"Bad Request: Max prompt length exceeded (">> \o Decimal(L)
                \o <<">">> \o Decimal(MAX_PROMPT_LENGTH)
         /\ fetchCalls = 0
    /\ (0 < L /\ L <= MAX_PROMPT_LENGTH) =>
         /\ fetchCalls = 1
         /\ payload.prompt = Str(L)

C9_Witness ==
  /\ StringPrompt
  /\ request.body.prompt.n = 12
  /\ response.text =
       <<"Bad Request: Max prompt length exceeded (", "1", "2", ">", "1", "0">>

\* ---------------------------------------------------------------- C10
\* C10: when the fetch rejects, the client is answered with a 5xx Response
\* and no relay is started.
C10_FetchRejection ==
  (pc = "rejected" /\ fetchCalls = 1) =>
    /\ response.status \in 500..599
    /\ loop = "idle"
    /\ reads = 0

\* ------------------------------------------- notions of the later claims
\* the reads that have settled: one per chunk, one for the end or the error
SettledReads == Len(upstream) + (IF upstreamEnd = "open" THEN 0 ELSE 1)

IsPrefix(a, b) == Len(a) <= Len(b) /\ SubSeq(b, 1, Len(a)) = a

\* decoding all the bytes at once, with the flush at the end
DecodeAll(bytes) ==
  LET r == Decode(NewDecoder, bytes)
  IN r.text \o (IF r.dec.needed # 0 THEN <<65533>> ELSE <<>>)

\* the bytes received so far end on a character boundary
EndsOnBoundary == Decode(NewDecoder, Flatten(upstream)).dec.needed = 0

\* ---------------------------------------------------------------- C11
\* C11: when the upstream response is not ok, the client is answered with a
\* 5xx Response, no relay is started and the upstream body is never read.
C11_UpstreamNotOk ==
  (pc = "resolved" /\ fetchCalls = 1 /\ ~upstreamOk) =>
    /\ response.status \in 500..599
    /\ response.body # "stream"
    /\ loop = "idle"
    /\ reader = "none"
    /\ reads = 0
    /\ emitted = <<>>

C11_Witness ==
  /\ pc = "resolved"
  /\ fetchCalls = 1
  /\ ~upstreamOk
  /\ response.status = 500

\* ---------------------------------------------------------------- C12
\* C12: when a read fails the controller is errored, not closed, no further
\* read is issued, and the errored state does not occur after a normal end
\* or a close at the cap.
C12_ReadError ==
  /\ upstreamEnd = "error" =>
       /\ controller.state = "errored"
       /\ ~controller.closeRequested
       /\ ~readPending
       /\ reads = SettledReads
       /\ Len(terminal) = 1
       /\ terminal[1].call = "error"
       /\ terminal[1].effect
       /\ terminal[1].at = Len(emitted)
  /\ loop \in {"done", "cap"} =>
       /\ controller.state # "errored"
       /\ controller.closeRequested

C12_Witness ==
  /\ upstreamEnd = "error"
  /\ Len(upstream) = 2
  /\ controller.state = "errored"

\* ---------------------------------------------------------------- C13
\* C13: when the relay ends before upstream has ended (the cap was reached,
\* or a write failed after the client went away), the upstream reader is
\* cancelled.
C13_UpstreamReleased ==
  (loop \in {"cap", "error"} /\ upstreamEnd = "open") => reader = "cancelled"

\* ---------------------------------------------------------------- C14
\* C14: the response is that of the first failing check in the order
\* origin, preflight, method, JSON: 403 for a wrong origin even with
\* OPTIONS, the empty preflight response for an allowed OPTIONS whatever
\* its body, 405 for another method without the body being read, and 400
\* "Bad Request: Invalid JSON" before any prompt check.
C14_GateOrder ==
  pc # "start" =>
    /\ request.origin # ALLOWED_ORIGIN =>
         /\ response.status = 403
         /\ response.text = <<"Forbidden">>
         /\ passed = <<>>
    /\ (request.origin = ALLOWED_ORIGIN /\ request.method = "OPTIONS") =>
         /\ response.status = 200
         /\ response.body = "null"
         /\ response.headers =
              {<<"Access-Control-Allow-Origin", "https://koomen.dev">>,
               <<"Access-Control-Allow-Methods", "POST, OPTIONS">>,
               <<"Access-Control-Allow-Headers", "Content-Type, Authorization">>}
         /\ ~bodyRead
    /\ (request.origin = ALLOWED_ORIGIN /\ request.method \notin {"POST", "OPTIONS"}) =>
         /\ response.status = 405
         /\ ~bodyRead
         /\ passed = <<"origin", "preflight">>
    /\ ( /\ request.origin = ALLOWED_ORIGIN
         /\ request.method = "POST"
         /\ request.body.kind = "invalid"
         /\ pc # "json" ) =>
         /\ response.status = 400
         /\ response.text = <<"Bad Request: Invalid JSON">>
         /\ passed = <<"origin", "preflight", "method">>

C14_Witness ==
  /\ request.origin = ALLOWED_ORIGIN
  /\ request.method = "GET"
  /\ request.body.kind = "object"
  /\ response.status = 405

\* ---------------------------------------------------------------- C15
\* C15: the bytes enqueued so far are a prefix of the bytes received so
\* far; every enqueued chunk but the last equals its upstream chunk and the
\* last one is a truncation of its upstream chunk.
C15_PrefixOfUpstream ==
  /\ IsPrefix(Flatten(emitted), Flatten(upstream))
  /\ Len(emitted) <= Len(upstream)
  /\ \A i \in 1..Len(emitted) :
       IF i < Len(emitted) THEN emitted[i] = upstream[i]
       ELSE IsPrefix(emitted[i], upstream[i])

\* ---------------------------------------------------------------- C16
\* C16: when every chunk was forwarded whole and the bytes received end on
\* a character boundary, totalLength is the decoded length of the
\* concatenated bytes: a character split across chunks counts once.
C16_SplitCountedOnce ==
  (loop \in {"running", "done", "error"} /\ EndsOnBoundary) =>
    totalLength = Len(DecodeAll(Flatten(upstream)))

C16_Witness ==
  /\ Len(upstream) = 2
  /\ Decode(NewDecoder, upstream[1]).dec.needed # 0
  /\ EndsOnBoundary
  /\ loop = "running"
  /\ totalLength = 2
  /\ 65533 \notin {DecodeAll(Flatten(upstream))[i] : i \in 1..2}

\* ---------------------------------------------------------------- C17
\* C17: at most one read is outstanding; a read is outstanding only when
\* every chunk received was counted and enqueued and no terminal call was
\* made; after a terminal call no read is outstanding.
C17_OneReadAtATime ==
  /\ reads - SettledReads \in {0, 1}
  /\ readPending <=> reads - SettledReads = 1
  /\ readPending =>
       /\ loop = "running"
       /\ terminal = <<>>
       /\ Len(emitted) = Len(upstream)
       /\ totalLength = Cumulative(Len(upstream))
  /\ terminal # <<>> => reads = SettledReads

C17_Witness ==
  /\ readPending
  /\ reads = 3
  /\ Len(upstream) = 2

\* ---------------------------------------------------------------- C18
\* C18: no read is outstanding while more than one chunk waits in the
\* stream's queue for the consumer.
C18_Backpressure ==
  readPending => Len(controller.queue) <= 1

\* ---------------------------------------------------------------- C19
\* C19: handleRequest never rejects.
C19_NeverRejects == pc # "rejected"

\* ---------------------------------------------------------------- C20
\* C20: at most one terminal call (close or error) is made on the
\* controller; it is made, and takes effect, as soon as upstream has ended,
\* failed or exceeded the cap; after it nothing is enqueued and no read is
\* outstanding, whether or not the client has gone away.
C20_OneTerminalEvent ==
  /\ Len(terminal) <= 1
  /\ (loop # "idle" /\ (upstreamEnd # "open" \/ Exceeding # {})) => Len(terminal) = 1
  /\ terminal # <<>> =>
       /\ terminal[1].effect
       /\ Len(emitted) = terminal[1].at
       /\ ~CanCloseOrEnqueue(controller)
       /\ ~readPending
       /\ reads = SettledReads
       /\ loop \in {"done", "cap", "error"}

C20_Witness ==
  /\ loop = "cap"
  /\ Len(terminal) = 1
  /\ terminal[1].gone
  /\ Len(upstream) = 2

====
